---- MODULE Spec2Model ----
(***************************************************************************)
(* Medicine request lifecycle of the meditatva backend: the MedicineRequest *)
(* document (models/MedicineRequest.js), its instance methods and pre-save  *)
(* hook, and the HTTP handlers of MedicineRequestController that load the   *)
(* document, mutate the loaded copy and save it.                            *)
(*                                                                          *)
(* Every handler that writes is an async function: it awaits findById, then *)
(* works on its own in-memory copy and awaits save().  Other handlers run   *)
(* between the two awaits, so a handler is two steps here: the first from   *)
(* findById through its checks and the changes to its copy up to the call   *)
(* of save(), the second (...Save) the pre-save hook, the update sent to    *)
(* the store, the notifications and the HTTP result.  save() of a loaded    *)
(* document sends only the paths the handler modified: $set for changed     *)
(* fields, $push for appended array elements (which increments __v), and a  *)
(* __v condition when an existing array element was modified in place.      *)
(* The handlers between their two steps are kept as a bag (`calls`); the    *)
(* clock (`now`) is counted from the creation of the request.               *)
(*                                                                          *)
(* The controller notifies through SocketHandler (services): a connection   *)
(* joins its rooms when it is made, io.to(room).emit reaches the channels   *)
(* that are in the room at that moment (`delivered`), and the handler keeps *)
(* two registries keyed by user id (`connectedUsers`, `userRooms`).         *)
(* Coordinates are in hundredths of a degree, so that the grid of 0.05      *)
(* degrees is 5 and the cell of a coordinate is a floor division.           *)
(***************************************************************************)
EXTENDS Integers, Sequences, FiniteSets, Bags, TLC

VARIABLES db, now, calls, last, totalResponses, ops,
          channels, connectedUsers, userRooms, delivered, inbox,
          found, distance, budget

vars == <<db, now, calls, last, totalResponses, ops,
          channels, connectedUsers, userRooms, delivered, inbox,
          found, distance, budget>>

\* the state of SocketHandler and of the io server
sockvars == <<channels, connectedUsers, userRooms>>

\* the results of the read-only calls
queryvars == <<found, distance>>

----------------------------------------------------------------------------
(* Bounds of the model *)

NumSlots == 2

MaxOps == 4

MaxTicks == 1

MaxChannels == 2

\* handler calls in a behaviour of SpecLifecycle
MaxOpsLifecycle == 6

----------------------------------------------------------------------------
(* Users, roles and inputs *)

Patient == "p1"

Pharmacies == {"phA", "phB"}

Users == {Patient} \cup Pharmacies

role(u) == IF u \in Pharmacies THEN "pharmacy" ELSE "patient"

\* req.params.pharmacyId is undefined on the route as wired (/:requestId/accept)
Undefined == "undefined"

PharmacyIdParams == Pharmacies \cup {Undefined}

Statuses == {"open", "accepted", "preparing", "ready", "completed", "cancelled", "expired"}

Urgencies == {"normal", "urgent", "emergency"}

NoDoc == [exists |-> FALSE]

NoAccepted == [pharmacy |-> "none", acceptedAt |-> -1]

NoNotes == "none"

NotesInputs == {NoNotes, "note"}

\* availableMedicines bodies: sequences of {available, price}
ItemLists == { <<[available |-> TRUE, price |-> 1200]>>,
               <<[available |-> TRUE, price |-> 900]>>,
               << >> }

\* medicines bodies of createRequest: sequences of quantities
MedicineLists == { <<2>>, <<0>>, << >> }

\* a number of a request body or of an array: undefined when it is absent
Num(v) == [defined |-> TRUE, value |-> v]

UndefinedNum == [defined |-> FALSE, value |-> 0]

\* !x of such a number: undefined and 0 are falsy
Falsy(n) == ~n.defined \/ n.value = 0

\* location bodies of createRequest: absent, on the equator, a point
NoLocation == [given |-> FALSE, latitude |-> UndefinedNum, longitude |-> UndefinedNum]

Point(lat, lng) == [given |-> TRUE, latitude |-> Num(lat), longitude |-> Num(lng)]

Locations == { NoLocation, Point(0, 7720), Point(2861, 7720) }

\* pharmacyDetails.location.coordinates of a user, [longitude, latitude]: phA
\* has registered a location, phB has not and its array path reads as []
coordinatesOf(u) == IF u = "phA" THEN <<7720, 2861>> ELSE << >>

\* the array read as [latitude, longitude]
AtLatitudeFirst(coordinates, i) ==
  IF 2 - i \in DOMAIN coordinates THEN Num(coordinates[2 - i]) ELSE UndefinedNum

\* coordinates[i] of a JavaScript array
At(coordinates, i) ==
  IF i + 1 \in DOMAIN coordinates THEN Num(coordinates[i + 1]) ELSE UndefinedNum

\* 24*60*60*1000 ms
TTL == 86400000

\* the clock is read in steps of just over the time to live
TickStep == TTL + 1

NoLast == [op |-> "none", actor |-> "none", pharmacyId |-> "none", result |-> "none", events |-> {}]

\* connectedUsers and userRooms hold no entry for a user
NoSocketId == 0

\* no findNearbyRequests or calculateDistance call has returned
NoFound == [at |-> 0, requests |-> {}]

NoDistance == [called |-> FALSE, from |-> <<0, 0>>, to |-> <<0, 0>>, km |-> 0]

NoRooms == [has |-> FALSE, rooms |-> {}]

----------------------------------------------------------------------------
(* Event router calls: the room and the event name *)

UserRoom(u) == "user_" \o u

\* the urgency and the location of the payload of the events of createRequest
NoData == [urgency |-> "none", location |-> NoLocation]

Ev(room, name) == [room |-> room, name |-> name, data |-> NoData]

EvData(room, name, data) == [room |-> room, name |-> name, data |-> data]

\* 0.05 degrees
gridSize == 5

\* Math.floor(x / gridSize) in a template string: NaN for undefined
Grid(n) == IF n.defined THEN ToString(n.value \div gridSize) ELSE "NaN"

getLocationRoom(lat, lng) == "location_" \o Grid(lat) \o "_" \o Grid(lng)

NoChannel == [live |-> FALSE, userId |-> "none", rooms |-> {}]

ChannelIds == 1..MaxChannels

\* io.to(room).emit(name, data) for each event: the channels in the room now
Deliver(events) ==
  { [channel |-> q[1], name |-> q[2].name] :
      q \in { x \in ChannelIds \X events :
                /\ channels[x[1]].live
                /\ x[2].room \in channels[x[1]].rooms } }

\* the order of the emit calls inside one handler: createRequest notifies the
\* cell before the pharmacies room, acceptPharmacy the accepted pharmacy
\* before the others
emitOrder ==
  <<"new_medicine_request", "urgent_medicine_request", "pharmacy_responded",
    "request_accepted", "request_closed", "request_status_changed", "new_message">>

NoInbox == [ch \in ChannelIds |-> << >>]

Reverse(seq) == [i \in 1..Len(seq) |-> seq[Len(seq) + 1 - i]]

\* a transport that hands the packets of one handler to the client last first
DeliverLastFirst(events) ==
  [ch \in ChannelIds |->
     IF channels[ch].live
     THEN LET reaches(n) == \E e \in events : e.name = n /\ e.room \in channels[ch].rooms
          IN Reverse(SelectSeq(emitOrder, reaches))
     ELSE << >>]

\* what each channel receives from the emit calls of one handler, in the
\* order of the calls: socket.io writes each packet to the socket's transport
\* when emit is called
DeliverInOrder(events) ==
  [ch \in ChannelIds |->
     IF channels[ch].live
     THEN LET reaches(n) == \E e \in events : e.name = n /\ e.room \in channels[ch].rooms
          IN SelectSeq(emitOrder, reaches)
     ELSE << >>]

----------------------------------------------------------------------------
(* models/MedicineRequest.js *)

RECURSIVE SumPrices(_)
SumPrices(items) ==
  IF items = << >> THEN 0
  ELSE (IF Head(items).available /\ Head(items).price # 0 THEN Head(items).price ELSE 0)
       + SumPrices(Tail(items))

\* the discount given from 1000 on instead of above 1000
DiscountFromThreshold(totalPrice) == IF totalPrice >= 1000 THEN 5 ELSE 0

DiscountFor(totalPrice) == IF totalPrice > 1000 THEN 5 ELSE 0

FinalPriceOf(totalPrice, discount) == totalPrice - ((totalPrice * discount) \div 100)

Reprice(r) ==
  [r EXCEPT !.finalPrice = IF r.discount > 0
                           THEN r.totalPrice - ((r.totalPrice * r.discount) \div 100)
                           ELSE r.totalPrice]

\* a pre-save hook that lets an emergency request stay open after expiresAt
PreSaveKeepsEmergency(doc, t) ==
  [doc EXCEPT !.status = IF doc.status = "open" /\ doc.expiresAt < t /\ doc.urgency # "emergency"
                         THEN "expired" ELSE doc.status,
              !.responses = [i \in DOMAIN doc.responses |-> Reprice(doc.responses[i])]]

\* the pre('save') hook: an open request past expiresAt becomes expired, and
\* every response gets its finalPrice from its totalPrice and discount
PreSave(doc, t) ==
  [doc EXCEPT !.status = IF doc.status = "open" /\ doc.expiresAt < t THEN "expired" ELSE doc.status,
              !.responses = [i \in DOMAIN doc.responses |-> Reprice(doc.responses[i])]]

Responded(doc, pharmacyId) ==
  \E i \in DOMAIN doc.responses : doc.responses[i].pharmacy = pharmacyId

\* addResponse with the ids compared as objects (no toString): never equal
existingResponseNoToString(doc, pharmacyId) == FALSE

\* addResponse: this.responses.find(r => r.pharmacy.toString() === pharmacyId.toString())
existingResponse(doc, pharmacyId) ==
  \E i \in DOMAIN doc.responses : doc.responses[i].pharmacy = pharmacyId

\* acceptPharmacy: this.responses.find(r => r.pharmacy.toString() === pharmacyId.toString())
pharmacyResponse(doc, pharmacyId) ==
  \E i \in DOMAIN doc.responses : doc.responses[i].pharmacy = pharmacyId

isPatient(doc, actor) == doc.patient = actor

\* the check of getPrescriptionImage (hasResponded) used in place of isAcceptedPharmacy
hasResponded(doc, actor) ==
  \E i \in DOMAIN doc.responses : doc.responses[i].pharmacy = actor

isAcceptedPharmacy(doc, actor) == doc.accepted.pharmacy = actor

\* the update save() sends for a copy `loc` of a document loaded as `snap`,
\* applied to the stored document
ElemModified(snap, loc) ==
  \E i \in DOMAIN snap.responses : loc.responses[i] # snap.responses[i]

Pushed(snap, loc) ==
  SubSeq(loc.responses, Len(snap.responses) + 1, Len(loc.responses))

PushedCommunication(snap, loc) ==
  SubSeq(loc.communication, Len(snap.communication) + 1, Len(loc.communication))

SaveOk(stored, snap, loc) ==
  ElemModified(snap, loc) => stored.v = snap.v

MergeElem(st, sn, lo) ==
  [st EXCEPT !.isActive = IF lo.isActive # sn.isActive THEN lo.isActive ELSE st.isActive,
             !.finalPrice = IF lo.finalPrice # sn.finalPrice THEN lo.finalPrice ELSE st.finalPrice]

\* a save that writes the whole loaded copy over the stored document
SaveWholeDocument(stored, snap, loc) ==
  [loc EXCEPT !.v = IF Pushed(snap, loc) # << >> \/ PushedCommunication(snap, loc) # << >>
                    THEN stored.v + 1 ELSE stored.v]

Save(stored, snap, loc) ==
  [stored EXCEPT
     !.status = IF loc.status # snap.status THEN loc.status ELSE stored.status,
     !.accepted = IF loc.accepted # snap.accepted THEN loc.accepted ELSE stored.accepted,
     !.notes = IF loc.notes # snap.notes THEN loc.notes ELSE stored.notes,
     !.responseCount = IF loc.responseCount # snap.responseCount
                       THEN loc.responseCount ELSE stored.responseCount,
     !.responses = [i \in DOMAIN stored.responses |->
                      IF i \in DOMAIN snap.responses
                      THEN MergeElem(stored.responses[i], snap.responses[i], loc.responses[i])
                      ELSE stored.responses[i]] \o Pushed(snap, loc),
     !.communication = stored.communication \o PushedCommunication(snap, loc),
     !.v = IF Pushed(snap, loc) # << >> \/ PushedCommunication(snap, loc) # << >>
           THEN stored.v + 1 ELSE stored.v]

addResponse(doc, pharmacyId, responseData) ==
  [doc EXCEPT !.responses = Append(doc.responses,
                                   [pharmacy |-> pharmacyId,
                                    availableMedicines |-> responseData.availableMedicines,
                                    totalPrice |-> responseData.totalPrice,
                                    discount |-> responseData.discount,
                                    finalPrice |-> responseData.finalPrice,
                                    isActive |-> TRUE]),
              !.responseCount = doc.responseCount + 1]

acceptPharmacy(doc, pharmacyId, t) ==
  [doc EXCEPT !.status = "accepted",
              !.accepted = [pharmacy |-> pharmacyId, acceptedAt |-> t],
              !.responses = [i \in DOMAIN doc.responses |->
                               IF doc.responses[i].pharmacy # pharmacyId
                               THEN [doc.responses[i] EXCEPT !.isActive = FALSE]
                               ELSE doc.responses[i]]]

addCommunication(doc, senderId) ==
  [doc EXCEPT !.communication = Append(doc.communication, senderId)]

NewRequest(patientId, urgency, t) ==
  [exists |-> TRUE, patient |-> patientId, urgency |-> urgency, status |-> "open",
   responses |-> << >>, accepted |-> NoAccepted, notes |-> NoNotes,
   responseCount |-> 0, communication |-> << >>, expiresAt |-> t + TTL, v |-> 0]

----------------------------------------------------------------------------
(* routes/medicineRequests.js: validation middleware *)

validateMedicineRequest(medicines, location) ==
  /\ medicines # << >>
  /\ \A i \in DOMAIN medicines : medicines[i] > 0
  /\ location.given
  /\ ~Falsy(location.latitude)
  /\ ~Falsy(location.longitude)

validatePharmacyResponse(items) ==
  /\ items # << >>
  /\ \A i \in DOMAIN items : items[i].available => items[i].price > 0

----------------------------------------------------------------------------
Init ==
  /\ db = NoDoc
  /\ now = 0
  /\ calls = EmptyBag
  /\ last = NoLast
  /\ totalResponses = [p \in Pharmacies |-> 0]
  /\ ops = 0
  /\ channels = [i \in ChannelIds |-> NoChannel]
  /\ connectedUsers = [u \in Users |-> NoSocketId]
  /\ userRooms = [u \in Users |-> NoRooms]
  /\ delivered = {}
  /\ inbox = NoInbox
  /\ found = NoFound
  /\ distance = NoDistance
  /\ budget = MaxOps

\* time passes
Tick ==
  /\ db.exists
  /\ now < MaxTicks * TickStep
  /\ now' = now + TickStep
  /\ delivered' = {}
  /\ inbox' = NoInbox
  /\ UNCHANGED <<db, calls, last, totalResponses, ops, sockvars, queryvars, budget>>

Result(op, actor, pharmacyId, result, events) ==
  [op |-> op, actor |-> actor, pharmacyId |-> pharmacyId, result |-> result, events |-> events]

\* a notify call that throws when no socket is in the room it targets: the
\* handler's catch answers 500
ReturnOrThrow(res) ==
  /\ last' = IF res.events # {} /\ Deliver(res.events) = {}
             THEN [res EXCEPT !.result = "ServerError", !.events = {}]
             ELSE res
  /\ delivered' = Deliver(res.events)
  /\ inbox' = DeliverInOrder(res.events)

\* the handler has made its notify calls and sends its HTTP response
Return(res) ==
  /\ last' = res
  /\ delivered' = Deliver(res.events)
  /\ inbox' = DeliverInOrder(res.events)

\* a handler returns before its save: nothing is written
Reject(op, actor, pharmacyId, result) ==
  /\ Return(Result(op, actor, pharmacyId, result, {}))
  /\ UNCHANGED <<db, calls, totalResponses>>

\* a handler that notifies the other party before it awaits its save
AwaitAfterNotify(op, actor, pharmacyId, loc) ==
  /\ calls' = calls (+) SetToBag({[op |-> op, actor |-> actor, pharmacyId |-> pharmacyId,
                                   snap |-> db, loc |-> loc]})
  /\ Return(Result(op, actor, pharmacyId, "pending",
                   {Ev(UserRoom(IF actor = db.patient THEN pharmacyId ELSE db.patient), op)}))
  /\ UNCHANGED <<db, totalResponses>>

\* a handler reaches `await ...save()` holding the document it loaded (snap)
\* and its modified copy (loc)
Await(op, actor, pharmacyId, loc) ==
  /\ calls' = calls (+) SetToBag({[op |-> op, actor |-> actor, pharmacyId |-> pharmacyId,
                                   snap |-> db, loc |-> loc]})
  /\ delivered' = {}
  /\ inbox' = NoInbox
  /\ UNCHANGED <<db, last, totalResponses>>

\* a request arrives for the stored request
Arrive ==
  /\ ops < budget
  /\ db.exists
  /\ BagCardinality(calls) < NumSlots
  /\ ops' = ops + 1
  /\ UNCHANGED <<now, sockvars, queryvars, budget>>

\* save() resolves or rejects
Saved(c, op) ==
  /\ c.op = op
  /\ calls' = calls (-) SetToBag({c})
  /\ UNCHANGED <<now, ops, sockvars, queryvars, budget>>

\* POST / : validateMedicineRequest, createRequest
CreateRequest(actor, urgency, medicines, location) ==
  /\ ops < budget
  /\ ~db.exists
  /\ ops' = ops + 1
  /\ UNCHANGED <<now, calls, totalResponses, sockvars, queryvars, budget>>
  /\ IF ~validateMedicineRequest(medicines, location)
     THEN /\ db' = db
          /\ Return(Result("create", actor, "none", "ValidationError", {}))
     ELSE IF role(actor) # "patient"
     THEN /\ db' = db
          /\ Return(Result("create", actor, "none", "Unauthorized", {}))
     ELSE /\ db' = NewRequest(actor, urgency, now)
          /\ Return(Result("create", actor, "none", "ok",
                            {EvData(getLocationRoom(location.latitude, location.longitude),
                                    "new_medicine_request",
                                    [urgency |-> urgency, location |-> location])}
                            \cup (IF urgency \in {"urgent", "emergency"}
                                  THEN {EvData("pharmacies", "urgent_medicine_request",
                                               [urgency |-> urgency, location |-> location])}
                                  ELSE {})))

\* POST /:requestId/respond : validatePharmacyResponse, respondToRequest up to
\* request.addResponse(...), which pushes the response and calls save()
RespondToRequest(actor, items) ==
  LET totalPrice == SumPrices(items)
      discount == DiscountFor(totalPrice)
      data == [availableMedicines |-> items, totalPrice |-> totalPrice, discount |-> discount,
               finalPrice |-> FinalPriceOf(totalPrice, discount)]
  IN
  /\ Arrive
  /\ IF ~validatePharmacyResponse(items) THEN Reject("respond", actor, "none", "ValidationError")
     ELSE IF role(actor) # "pharmacy" THEN Reject("respond", actor, "none", "Unauthorized")
     ELSE IF db.status # "open" THEN Reject("respond", actor, "none", "RequestClosed")
     ELSE IF existingResponse(db, actor)
     THEN Reject("respond", actor, "none", "DuplicateResponse")
     ELSE Await("respond", actor, "none", addResponse(db, actor, data))

\* respondToRequest from the save of addResponse to the HTTP result
RespondToRequestSave(c) ==
  LET loc == PreSave(c.loc, now)
  IN
  /\ Saved(c, "respond")
  /\ IF ~SaveOk(db, c.snap, loc)
     THEN /\ Return(Result("respond", c.actor, "none", "ServerError", {}))
          /\ UNCHANGED <<db, totalResponses>>
     ELSE /\ db' = Save(db, c.snap, loc)
          /\ totalResponses' = [totalResponses EXCEPT ![c.actor] = @ + 1]
          /\ Return(Result("respond", c.actor, "none", "ok",
                            {Ev(UserRoom(c.snap.patient), "pharmacy_responded")}))

\* acceptPharmacy without its `request.status !== 'open'` check
AcceptPharmacyNoStatusCheck(actor, pharmacyId) ==
  /\ Arrive
  /\ IF db.patient # actor THEN Reject("accept", actor, pharmacyId, "Unauthorized")
     ELSE IF db.responses = << >> THEN Reject("accept", actor, pharmacyId, "ResponseNotFound")
     ELSE IF pharmacyId = Undefined THEN Reject("accept", actor, pharmacyId, "ServerError")
     ELSE IF ~pharmacyResponse(db, pharmacyId)
     THEN Reject("accept", actor, pharmacyId, "ResponseNotFound")
     ELSE Await("accept", actor, pharmacyId, acceptPharmacy(db, pharmacyId, now))

\* POST /:requestId/accept : acceptPharmacy up to request.acceptPharmacy(...),
\* which modifies the loaded document and calls save()
AcceptPharmacy(actor, pharmacyId) ==
  /\ Arrive
  /\ IF db.patient # actor THEN Reject("accept", actor, pharmacyId, "Unauthorized")
     ELSE IF db.status # "open" THEN Reject("accept", actor, pharmacyId, "RequestClosed")
     ELSE IF db.responses = << >> THEN Reject("accept", actor, pharmacyId, "ResponseNotFound")
     ELSE IF pharmacyId = Undefined THEN Reject("accept", actor, pharmacyId, "ServerError")
     ELSE IF ~pharmacyResponse(db, pharmacyId)
     THEN Reject("accept", actor, pharmacyId, "ResponseNotFound")
     ELSE Await("accept", actor, pharmacyId, acceptPharmacy(db, pharmacyId, now))

\* acceptPharmacy from the save to the HTTP result
AcceptPharmacySave(c) ==
  LET loc == PreSave(c.loc, now)
      otherPharmacies == {loc.responses[i].pharmacy : i \in
                            {j \in DOMAIN loc.responses :
                               /\ loc.responses[j].pharmacy # c.pharmacyId
                               /\ loc.responses[j].isActive}}
  IN
  /\ Saved(c, "accept")
  /\ UNCHANGED totalResponses
  /\ IF ~SaveOk(db, c.snap, loc)
     THEN /\ Return(Result("accept", c.actor, c.pharmacyId, "ServerError", {}))
          /\ UNCHANGED db
     ELSE /\ db' = Save(db, c.snap, loc)
          /\ Return(Result("accept", c.actor, c.pharmacyId, "ok",
                            {Ev(UserRoom(c.pharmacyId), "request_accepted")}
                            \cup {Ev(UserRoom(p), "request_closed") : p \in otherPharmacies}))

\* PATCH /:requestId/status : updateRequestStatus up to request.save()
UpdateRequestStatus(actor, status, notes) ==
  /\ Arrive
  /\ IF ~isPatient(db, actor) /\ ~isAcceptedPharmacy(db, actor)
     THEN Reject("updateStatus", actor, "none", "Unauthorized")
     ELSE Await("updateStatus", actor, "none",
                [db EXCEPT !.status = status,
                           !.notes = IF notes # NoNotes THEN notes ELSE db.notes])

\* updateRequestStatus from the save to the HTTP result
UpdateRequestStatusSave(c) ==
  LET loc == PreSave(c.loc, now)
      targetUserId == IF isPatient(c.snap, c.actor) THEN c.snap.accepted.pharmacy ELSE c.snap.patient
  IN
  /\ Saved(c, "updateStatus")
  /\ UNCHANGED totalResponses
  /\ IF ~SaveOk(db, c.snap, loc)
     THEN /\ Return(Result("updateStatus", c.actor, "none", "ServerError", {}))
          /\ UNCHANGED db
     ELSE /\ db' = Save(db, c.snap, loc)
          /\ Return(Result("updateStatus", c.actor, "none", "ok",
                            IF targetUserId # NoAccepted.pharmacy
                            THEN {Ev(UserRoom(targetUserId), "request_status_changed")}
                            ELSE {}))

\* POST /:requestId/messages : addCommunication up to
\* request.addCommunication(...), which pushes the message and calls save()
AddCommunication(actor) ==
  /\ Arrive
  /\ IF ~isPatient(db, actor) /\ ~isAcceptedPharmacy(db, actor)
     THEN Reject("addCommunication", actor, "none", "Unauthorized")
     ELSE Await("addCommunication", actor, "none", addCommunication(db, actor))

\* addCommunication from the save to the HTTP result
AddCommunicationSave(c) ==
  LET loc == PreSave(c.loc, now)
      targetUserId == IF isPatient(c.snap, c.actor) THEN c.snap.accepted.pharmacy ELSE c.snap.patient
  IN
  /\ Saved(c, "addCommunication")
  /\ UNCHANGED totalResponses
  /\ IF ~SaveOk(db, c.snap, loc)
     THEN /\ Return(Result("addCommunication", c.actor, "none", "ServerError", {}))
          /\ UNCHANGED db
     ELSE /\ db' = Save(db, c.snap, loc)
          /\ Return(Result("addCommunication", c.actor, "none", "ok",
                            IF targetUserId # NoAccepted.pharmacy
                            THEN {Ev(UserRoom(targetUserId), "new_message")}
                            ELSE {}))

\* the urgency filter of a query: none, or the value of req.query.urgency
NoFilter == "any"

UrgencyFilters == {NoFilter} \cup Urgencies

\* findNearbyRequests without its expiresAt condition
findNearbyRequestsAnyExpiry(stored, t, near, urgencyFilter) ==
  IF /\ stored.exists
     /\ stored.status = "open"
     /\ near
     /\ (urgencyFilter = NoFilter \/ stored.urgency = urgencyFilter)
  THEN {stored}
  ELSE {}

\* MedicineRequest.findNearbyRequests at time t: status 'open', expiresAt
\* after Date.now(), $near satisfied (near), and the additional filter
findNearbyRequests(stored, t, near, urgencyFilter) ==
  IF /\ stored.exists
     /\ stored.status = "open"
     /\ stored.expiresAt > t
     /\ near
     /\ (urgencyFilter = NoFilter \/ stored.urgency = urgencyFilter)
  THEN {stored}
  ELSE {}

\* a call of the static with a point and a radius
FindNearbyRequests(near, urgencyFilter) ==
  /\ found' = [at |-> now, requests |-> findNearbyRequests(db, now, near, urgencyFilter)]
  /\ delivered' = {}
  /\ inbox' = NoInbox
  /\ UNCHANGED <<db, now, calls, last, totalResponses, ops, sockvars, distance, budget>>

\* GET /nearby : getNearbyRequests.  `const { longitude, latitude } =
\* ...location.coordinates` reads two properties an array does not have, so
\* the static is called with undefined coordinates and the query is refused
GetNearbyRequests(actor, urgencyFilter) ==
  /\ last' = Result("getNearby", actor, "none",
                    IF role(actor) # "pharmacy" THEN "Unauthorized" ELSE "ServerError", {})
  /\ found' = [at |-> now, requests |-> {}]
  /\ delivered' = {}
  /\ inbox' = NoInbox
  /\ UNCHANGED <<db, now, calls, totalResponses, ops, sockvars, distance, budget>>

\* pharmacyDetails.location of the connecting user: a nested path of the User
\* schema, which reads as an object whether or not coordinates were registered
locationIsSet(u) == TRUE

\* a connection that is sent again the events of the last emission to the
\* rooms it joins
ConnectWithReplay(ch, u) ==
  LET coordinates == coordinatesOf(u)
      locationRoom == getLocationRoom(At(coordinates, 1), At(coordinates, 0))
      inCell == role(u) = "pharmacy" /\ locationIsSet(u)
  IN
  /\ ~channels[ch].live
  /\ connectedUsers' = [connectedUsers EXCEPT ![u] = ch]
  /\ userRooms' = [userRooms EXCEPT
                     ![u] = [has |-> TRUE, rooms |-> IF inCell THEN {locationRoom} ELSE {}]]
  /\ channels' = [channels EXCEPT
                    ![ch] = [live |-> TRUE, userId |-> u,
                             rooms |-> {UserRoom(u)}
                                       \cup (IF role(u) = "pharmacy" THEN {"pharmacies"} ELSE {})
                                       \cup (IF inCell THEN {locationRoom} ELSE {})]]
  /\ delivered' = {[channel |-> ch, name |-> e.name] :
                    e \in {x \in last.events : x.room \in channels'[ch].rooms}}
  /\ inbox' = NoInbox
  /\ UNCHANGED <<db, now, calls, last, totalResponses, ops, queryvars, budget>>

\* io.on('connection'): the registries, the personal room, and for a pharmacy
\* the pharmacies room and the room of its coordinates
Connect(ch, u) ==
  LET coordinates == coordinatesOf(u)
      locationRoom == getLocationRoom(At(coordinates, 1), At(coordinates, 0))
      inCell == role(u) = "pharmacy" /\ locationIsSet(u)
  IN
  /\ ~channels[ch].live
  /\ connectedUsers' = [connectedUsers EXCEPT ![u] = ch]
  /\ userRooms' = [userRooms EXCEPT
                     ![u] = [has |-> TRUE, rooms |-> IF inCell THEN {locationRoom} ELSE {}]]
  /\ channels' = [channels EXCEPT
                    ![ch] = [live |-> TRUE, userId |-> u,
                             rooms |-> {UserRoom(u)}
                                       \cup (IF role(u) = "pharmacy" THEN {"pharmacies"} ELSE {})
                                       \cup (IF inCell THEN {locationRoom} ELSE {})]]
  /\ delivered' = {}
  /\ inbox' = NoInbox
  /\ UNCHANGED <<db, now, calls, last, totalResponses, ops, queryvars, budget>>

\* socket.on('disconnect'): the socket leaves its rooms, the handler deletes the
\* registry entries of the socket's user
Disconnect(ch) ==
  /\ channels[ch].live
  /\ connectedUsers' = [connectedUsers EXCEPT ![channels[ch].userId] = NoSocketId]
  /\ userRooms' = [userRooms EXCEPT ![channels[ch].userId] = NoRooms]
  /\ channels' = [channels EXCEPT ![ch] = NoChannel]
  /\ delivered' = {}
  /\ inbox' = NoInbox
  /\ UNCHANGED <<db, now, calls, last, totalResponses, ops, queryvars, budget>>

\* isUserOnline(userId): this.connectedUsers.has(userId)
isUserOnline(u) == connectedUsers[u] # NoSocketId

Next ==
  \/ Tick
  \/ \E a \in Users, u \in Urgencies, m \in MedicineLists, l \in Locations :
       CreateRequest(a, u, m, l)
  \/ \E a \in Users, items \in ItemLists : RespondToRequest(a, items)
  \/ \E c \in BagToSet(calls) : RespondToRequestSave(c)
  \/ \E a \in Users, p \in PharmacyIdParams : AcceptPharmacy(a, p)
  \/ \E c \in BagToSet(calls) : AcceptPharmacySave(c)
  \/ \E a \in Users, st \in Statuses, n \in NotesInputs : UpdateRequestStatus(a, st, n)
  \/ \E c \in BagToSet(calls) : UpdateRequestStatusSave(c)
  \/ \E a \in Users : AddCommunication(a)
  \/ \E c \in BagToSet(calls) : AddCommunicationSave(c)

Spec == Init /\ [][Next]_vars

----------------------------------------------------------------------------
(* Pricing: responses with many bodies on one request.  Totals above 1000   *)
(* are multiples of 20, so that the 5% discount is a whole amount.          *)

PricedItemLists ==
  { <<[available |-> TRUE, price |-> 1200]>>,
    <<[available |-> TRUE, price |-> 900]>>,
    <<[available |-> TRUE, price |-> 1000]>>,
    <<[available |-> TRUE, price |-> 1020]>>,
    <<[available |-> TRUE, price |-> 600], [available |-> TRUE, price |-> 600]>>,
    <<[available |-> TRUE, price |-> 1000], [available |-> FALSE, price |-> 500]>>,
    <<[available |-> TRUE, price |-> 500], [available |-> FALSE, price |-> 0],
      [available |-> TRUE, price |-> 520]>>,
    <<[available |-> FALSE, price |-> 0]>> }

NextPricing ==
  \/ CreateRequest(Patient, "normal", <<2>>, Point(2861, 7720))
  \/ \E a \in Pharmacies, items \in PricedItemLists : RespondToRequest(a, items)
  \/ \E c \in BagToSet(calls) : RespondToRequestSave(c)
  \/ \E a \in Pharmacies : calls = EmptyBag /\ AcceptPharmacy(Patient, a)
  \/ \E c \in BagToSet(calls) : AcceptPharmacySave(c)

SpecPricing == Init /\ [][NextPricing]_vars

----------------------------------------------------------------------------
(* The handlers with the socket server: users connect and disconnect while  *)
(* the handlers run one after the other                                     *)

\* request origins in the cell of phA, in the next cell, and south of the
\* equator and west of Greenwich
RoutingLocations == { Point(2864, 7723), Point(2866, 7720), Point(-1, -7720) }

\* the bodies the handlers are called with here: every handler emits its
\* events; the whole input space of the handlers is that of Next
OneItem == <<[available |-> TRUE, price |-> 1200]>>

StatusUpdates == {"preparing", "cancelled"}

NextWithSockets ==
  \/ \E ch \in ChannelIds, u \in Users : Connect(ch, u)
  \/ \E ch \in ChannelIds : Disconnect(ch)
  \/ \E u \in Urgencies, l \in RoutingLocations : CreateRequest(Patient, u, <<2>>, l)
  \/ \E a \in Users : calls = EmptyBag /\ RespondToRequest(a, OneItem)
  \/ \E c \in BagToSet(calls) : RespondToRequestSave(c)
  \/ \E a \in Users, p \in Pharmacies : calls = EmptyBag /\ AcceptPharmacy(a, p)
  \/ \E c \in BagToSet(calls) : AcceptPharmacySave(c)
  \/ \E a \in Users, st \in StatusUpdates :
       calls = EmptyBag /\ UpdateRequestStatus(a, st, NoNotes)
  \/ \E c \in BagToSet(calls) : UpdateRequestStatusSave(c)
  \/ \E a \in Users : calls = EmptyBag /\ AddCommunication(a)
  \/ \E c \in BagToSet(calls) : AddCommunicationSave(c)

SpecWithSockets == Init /\ [][NextWithSockets]_vars

----------------------------------------------------------------------------
(* The life of one request after its acceptance: longer behaviours of the   *)
(* handlers, each called with one body                                      *)

InitLifecycle ==
  /\ db = NoDoc
  /\ now = 0
  /\ calls = EmptyBag
  /\ last = NoLast
  /\ totalResponses = [p \in Pharmacies |-> 0]
  /\ ops = 0
  /\ channels = [i \in ChannelIds |-> NoChannel]
  /\ connectedUsers = [u \in Users |-> NoSocketId]
  /\ userRooms = [u \in Users |-> NoRooms]
  /\ delivered = {}
  /\ inbox = NoInbox
  /\ found = NoFound
  /\ distance = NoDistance
  /\ budget = MaxOpsLifecycle

LifecycleStatuses == {"open", "preparing"}

NextLifecycle ==
  \/ CreateRequest(Patient, "normal", <<2>>, Point(2861, 7720))
  \/ \E a \in Pharmacies : RespondToRequest(a, OneItem)
  \/ \E c \in BagToSet(calls) : RespondToRequestSave(c)
  \/ \E p \in Pharmacies : AcceptPharmacy(Patient, p)
  \/ \E c \in BagToSet(calls) : AcceptPharmacySave(c)
  \/ \E a \in Users, st \in LifecycleStatuses : UpdateRequestStatus(a, st, NoNotes)
  \/ \E c \in BagToSet(calls) : UpdateRequestStatusSave(c)
  \/ \E a \in Users : AddCommunication(a)
  \/ \E c \in BagToSet(calls) : AddCommunicationSave(c)

SpecLifecycle == InitLifecycle /\ [][NextLifecycle]_vars

----------------------------------------------------------------------------
(* The socket messages a connected client can send: handleMedicineRequest-  *)
(* Events relays each of them to the rooms named in its data.  None of the  *)
(* handlers reads the store or the role of the sender.                      *)

\* what a relay leaves alone: everything but the deliveries of the step
relayUnchanged == <<db, now, calls, last, totalResponses, ops, sockvars, queryvars, budget>>

\* socket.on('medicine_request_created'): socket.to(room) reaches the room
\* without the sender
MedicineRequestCreatedMessage(ch, urgency, location) ==
  LET events == {EvData(getLocationRoom(location.latitude, location.longitude),
                        "new_medicine_request",
                        [urgency |-> urgency, location |-> location])}
                \cup (IF urgency \in {"urgent", "emergency"}
                      THEN {EvData("pharmacies", "urgent_medicine_request",
                                   [urgency |-> urgency, location |-> location])}
                      ELSE {})
  IN
  /\ channels[ch].live
  /\ delivered' = {d \in Deliver(events) : d.channel # ch}
  /\ inbox' = [DeliverInOrder(events) EXCEPT ![ch] = << >>]
  /\ UNCHANGED relayUnchanged

\* socket.on('pharmacy_response'): pharmacy_responded to user_${data.patientId}
PharmacyResponseMessage(ch, patientId) ==
  LET events == {Ev(UserRoom(patientId), "pharmacy_responded")}
  IN
  /\ channels[ch].live
  /\ delivered' = Deliver(events)
  /\ inbox' = DeliverInOrder(events)
  /\ UNCHANGED relayUnchanged

\* socket.on('pharmacy_accepted'): request_accepted to user_${data.pharmacyId},
\* request_closed to each of data.otherPharmacyIds
PharmacyAcceptedMessage(ch, pharmacyId, otherPharmacyIds) ==
  LET events == {Ev(UserRoom(pharmacyId), "request_accepted")}
                \cup {Ev(UserRoom(p), "request_closed") : p \in otherPharmacyIds}
  IN
  /\ channels[ch].live
  /\ delivered' = Deliver(events)
  /\ inbox' = DeliverInOrder(events)
  /\ UNCHANGED relayUnchanged

\* socket.on('request_status_update'): request_status_changed to
\* user_${targetUserId}
RequestStatusUpdateMessage(ch, targetUserId) ==
  LET events == {Ev(UserRoom(targetUserId), "request_status_changed")}
  IN
  /\ channels[ch].live
  /\ delivered' = Deliver(events)
  /\ inbox' = DeliverInOrder(events)
  /\ UNCHANGED relayUnchanged

\* the handlers with one body each, the connections, and the socket messages
NextWithRelays ==
  \/ \E ch \in ChannelIds, u \in Users : Connect(ch, u)
  \/ \E ch \in ChannelIds : Disconnect(ch)
  \/ CreateRequest(Patient, "normal", <<2>>, Point(2864, 7723))
  \/ \E a \in Pharmacies : calls = EmptyBag /\ RespondToRequest(a, OneItem)
  \/ \E c \in BagToSet(calls) : RespondToRequestSave(c)
  \/ \E p \in Pharmacies : calls = EmptyBag /\ AcceptPharmacy(Patient, p)
  \/ \E c \in BagToSet(calls) : AcceptPharmacySave(c)
  \/ \E a \in Users : calls = EmptyBag /\ UpdateRequestStatus(a, "preparing", NoNotes)
  \/ \E c \in BagToSet(calls) : UpdateRequestStatusSave(c)
  \/ \E ch \in ChannelIds : MedicineRequestCreatedMessage(ch, "urgent", Point(2864, 7723))
  \/ \E ch \in ChannelIds, u \in Users : PharmacyResponseMessage(ch, u)
  \/ \E ch \in ChannelIds, u \in Pharmacies, others \in SUBSET Pharmacies :
       PharmacyAcceptedMessage(ch, u, others)
  \/ \E ch \in ChannelIds, u \in Users : RequestStatusUpdateMessage(ch, u)

SpecWithRelays == Init /\ [][NextWithRelays]_vars

----------------------------------------------------------------------------
(* Steps of the handlers, as seen in a pair of states *)

\* a call of handler op by actor a arrives: it is rejected before its save or
\* reaches its save as the call c
Rejected(op, a) ==
  /\ ops' = ops + 1
  /\ calls' = calls
  /\ last'.op = op
  /\ last'.actor = a

Awaiting(c, op, a) ==
  /\ c.op = op
  /\ c.actor = a
  /\ calls' = calls (+) SetToBag({c})

Arrives(op, a) == Rejected(op, a) \/ \E c \in BagToSet(calls') : Awaiting(c, op, a)

\* the save of the call c resolves or rejects and the handler returns
Completes(c, op) ==
  /\ c.op = op
  /\ calls' = calls (-) SetToBag({c})

ActiveIndexes(doc) == {i \in DOMAIN doc.responses : doc.responses[i].isActive}

AllowedEdges ==
  { <<"open", "accepted">>, <<"open", "expired">>, <<"open", "cancelled">>,
    <<"accepted", "preparing">>, <<"preparing", "ready">>, <<"ready", "completed">>,
    <<"accepted", "cancelled">>, <<"preparing", "cancelled">>, <<"ready", "cancelled">> }

----------------------------------------------------------------------------
(* The read side: the nearby query of the pharmacies, on a request that the  *)
(* handlers take through its statuses one call at a time.                    *)

NextQueries ==
  \/ Tick
  \/ \E u \in Urgencies : CreateRequest(Patient, u, <<2>>, Point(2861, 7720))
  \/ calls = EmptyBag /\ \E a \in Pharmacies : RespondToRequest(a, OneItem)
  \/ \E c \in BagToSet(calls) : RespondToRequestSave(c)
  \/ calls = EmptyBag /\ \E p \in Pharmacies : AcceptPharmacy(Patient, p)
  \/ \E c \in BagToSet(calls) : AcceptPharmacySave(c)
  \/ calls = EmptyBag /\ \E a \in Users, st \in Statuses : UpdateRequestStatus(a, st, NoNotes)
  \/ \E c \in BagToSet(calls) : UpdateRequestStatusSave(c)
  \/ \E near \in BOOLEAN, f \in UrgencyFilters : FindNearbyRequests(near, f)
  \/ \E a \in Users, f \in UrgencyFilters : GetNearbyRequests(a, f)

SpecQueries == Init /\ [][NextQueries]_vars

----------------------------------------------------------------------------
(* calculateDistance (haversine).  JavaScript numbers are modelled in fixed  *)
(* point: a value x is the integer nearest to x * Scale, and every operation *)
(* rounds toward zero, which like IEEE rounding gives -r for the negated     *)
(* operand.  Math.sin and Math.cos are their Taylor polynomials (angles up   *)
(* to 0.8 rad here), Math.atan2 on the first quadrant a two-term fit of the  *)
(* arctangent.  Points are <<lat, lon>> in hundredths of a degree.           *)

Scale == 10000

\* Math.PI
Pi == 31416

\* Radius of the Earth in km
R == 6371

\* a / b rounded toward zero
Quot(a, b) == IF a >= 0 THEN a \div b ELSE -((-a) \div b)

Mul(a, b) == Quot(a * b, Scale)

\* degrees (in hundredths) * Math.PI / 180
Radians(h) == Quot(h * Pi, 18000)

Sin(x) ==
  LET x2 == Mul(x, x)
      x3 == Mul(x2, x)
      x5 == Mul(x3, x2)
  IN x - Quot(x3, 6) + Quot(x5, 120)

Cos(x) ==
  LET x2 == Mul(x, x)
      x4 == Mul(x2, x2)
      x6 == Mul(x4, x2)
  IN Scale - Quot(x2, 2) + Quot(x4, 24) - Quot(x6, 720)

Sqrt(a) == CHOOSE r \in 0..(2 * Scale) : r * r <= a * Scale /\ (r + 1) * (r + 1) > a * Scale

\* atan(t) for 0 <= t <= 1: (pi/4) t + 0.273 t (1 - t)
Atan(t) == Mul(Quot(Pi, 4), t) + Mul(2730, Mul(t, Scale - t))

\* Math.atan2(y, x) for y >= 0 and x >= 0, not both 0
Atan2(y, x) ==
  IF y = 0 THEN 0
  ELSE IF y <= x THEN Atan(Quot(y * Scale, x))
  ELSE Quot(Pi, 2) - Atan(Quot(x * Scale, y))

\* calculateDistance with the cosine of the first latitude taken twice
calculateDistanceOneLatitude(lat1, lon1, lat2, lon2) ==
  LET dLat == Radians(lat2 - lat1)
      dLon == Radians(lon2 - lon1)
      a == Mul(Sin(Quot(dLat, 2)), Sin(Quot(dLat, 2)))
           + Mul(Mul(Mul(Cos(Radians(lat1)), Cos(Radians(lat1))), Sin(Quot(dLon, 2))),
                 Sin(Quot(dLon, 2)))
      c == 2 * Atan2(Sqrt(a), Sqrt(Scale - a))
  IN R * c

\* calculateDistance(lat1, lon1, lat2, lon2): kilometres, in fixed point
calculateDistance(lat1, lon1, lat2, lon2) ==
  LET dLat == Radians(lat2 - lat1)
      dLon == Radians(lon2 - lon1)
      a == Mul(Sin(Quot(dLat, 2)), Sin(Quot(dLat, 2)))
           + Mul(Mul(Mul(Cos(Radians(lat1)), Cos(Radians(lat2))), Sin(Quot(dLon, 2))),
                 Sin(Quot(dLon, 2)))
      c == 2 * Atan2(Sqrt(a), Sqrt(Scale - a))
  IN R * c

\* Delhi (two points 0.05 degrees apart), Mumbai, Bangalore, Kolkata,
\* Chennai, and points on the equator, on the Greenwich meridian and south
\* of the equator
GeoPoints ==
  { <<2861, 7720>>, <<2866, 7720>>, <<1907, 7287>>, <<1297, 7759>>, <<2257, 8836>>,
    <<1308, 8027>>, <<0, 0>>, <<0, 9000>>, <<4000, 0>>, <<-3387, 1512>>, <<-2000, 4500>> }

\* a call of calculateDistance from one point to another
CalculateDistance(from, to) ==
  /\ distance' = [called |-> TRUE, from |-> from, to |-> to,
                  km |-> calculateDistance(from[1], from[2], to[1], to[2])]
  /\ delivered' = {}
  /\ inbox' = NoInbox
  /\ UNCHANGED <<db, now, calls, last, totalResponses, ops, sockvars, found, budget>>

NextDistance == \E from \in GeoPoints, to \in GeoPoints : CalculateDistance(from, to)

SpecDistance == Init /\ [][NextDistance]_vars

----------------------------------------------------------------------------
(* Claims *)

\* C1: in every reachable state no two entries of the request's responses have
\* the same pharmacy id, also when two calls of the same pharmacy interleave.
C1_ResponseUniqueness ==
  db.exists =>
    \A i, j \in DOMAIN db.responses :
      i # j => db.responses[i].pharmacy # db.responses[j].pharmacy

\* C2: a request whose status is not open has exactly one active response, and
\* it is the response of acceptedPharmacy.  Stated here for the statuses that
\* follow an acceptance (accepted, preparing, ready, completed), where the claim
\* is not already contradicted by the edges open -> expired and open -> cancelled.
C2_SingleAcceptance ==
  (db.exists /\ db.status \in {"accepted", "preparing", "ready", "completed"}) =>
    \E i \in DOMAIN db.responses :
      /\ ActiveIndexes(db) = {i}
      /\ db.responses[i].pharmacy = db.accepted.pharmacy

C4_ClosedTakesNoOffers ==
  [][(db.exists /\ db.status # "open") =>
       /\ \A a \in Pharmacies :
            Arrives("respond", a) =>
              (Rejected("respond", a) /\ db' = db
               /\ last'.result \in {"RequestClosed", "ValidationError"})
       /\ \A c \in BagToSet(calls) :
            Completes(c, "respond") =>
              (last'.result = "RequestClosed" /\ db'.responses = db.responses)]_vars

\* C5: every change of the stored status follows an allowed edge of the
\* lifecycle; the terminal statuses are never left.
C5_LifecycleEdges ==
  [][(db.exists /\ db'.status # db.status) => <<db.status, db'.status>> \in AllowedEdges]_vars

\* C6: a respondToRequest call against a request stored as open whose
\* expiresAt has passed fails with RequestClosed and appends no response.
C6_LazyExpiry ==
  [][\A c \in BagToSet(calls) :
       (Completes(c, "respond") /\ db.status = "open" /\ db.expiresAt < now)
       => (last'.result = "RequestClosed" /\ db'.responses = db.responses)]_vars

\* C7: updateRequestStatus by an actor who is neither the patient of the request
\* nor its accepted pharmacy fails with Unauthorized, writes nothing (it never
\* reaches its save) and emits no event.
C7_UpdateStatusUnauthorized ==
  [][\A a \in Users :
       (/\ db.exists
        /\ Arrives("updateStatus", a)
        /\ a # db.patient
        /\ a # db.accepted.pharmacy)
       => (/\ Rejected("updateStatus", a)
           /\ last'.result = "Unauthorized"
           /\ last'.events = {}
           /\ db' = db)]_vars

\* C7 witness: a pharmacy that is not the accepted one was refused while
\* another pharmacy is accepted.
C7_Witness ==
  /\ last.op = "updateStatus"
  /\ last.result = "Unauthorized"
  /\ last.actor \in Pharmacies
  /\ db.accepted.pharmacy \in Pharmacies \ {last.actor}

\* C8 as claimed: a well-formed respondToRequest call by a pharmacy that already
\* has a response on the request fails with DuplicateResponse, whatever the
\* status of the request (expired requests, which hold a response only through
\* the save that expired them, are left aside).
C8_DuplicateAnyStatus ==
  [][\A a \in Pharmacies :
       (/\ db.exists
        /\ db.status # "expired"
        /\ Arrives("respond", a)
        /\ Responded(db, a)
        /\ last'.result # "ValidationError")
       => (/\ Rejected("respond", a)
           /\ last'.result = "DuplicateResponse"
           /\ last'.events = {}
           /\ db' = db
           /\ totalResponses' = totalResponses)]_vars

\* C8 amended: a well-formed respondToRequest call by a pharmacy that already
\* has a response on the request is rejected before any save, with
\* DuplicateResponse when the request is open and with RequestClosed when it is
\* not; the stored request (responses, prices, isActive, responseCount), the
\* pharmacy's totalResponses are unchanged and no event is emitted.
C8_DuplicateRejected ==
  [][\A a \in Pharmacies :
       (/\ db.exists
        /\ Arrives("respond", a)
        /\ Responded(db, a)
        /\ last'.result # "ValidationError")
       => (/\ Rejected("respond", a)
           /\ last'.result = (IF db.status = "open" THEN "DuplicateResponse" ELSE "RequestClosed")
           /\ last'.events = {}
           /\ db' = db
           /\ totalResponses' = totalResponses)]_vars

\* C8 witness: a pharmacy with a response on the open request was refused as a
\* duplicate.
C8_Witness ==
  /\ last.op = "respond"
  /\ last.result = "DuplicateResponse"
  /\ db.status = "open"
  /\ Responded(db, last.actor)

AcceptArrivesFor(p) ==
  /\ Arrives("accept", db.patient)
  /\ \/ Rejected("accept", db.patient) /\ last'.pharmacyId = p
     \/ \E c \in BagToSet(calls') : Awaiting(c, "accept", db.patient) /\ c.pharmacyId = p

C12_AcceptResponseNotFound ==
  [][\A p \in PharmacyIdParams :
       (/\ db.exists
        /\ db.status = "open"
        /\ ~\E i \in DOMAIN db.responses :
              db.responses[i].pharmacy = p /\ db.responses[i].isActive
        /\ AcceptArrivesFor(p))
       => (/\ Rejected("accept", db.patient)
           /\ last'.result = "ResponseNotFound"
           /\ last'.events = {}
           /\ db' = db)]_vars

\* the sum of the prices of the items marked available
RECURSIVE AvailableTotal(_)
AvailableTotal(items) ==
  IF items = << >> THEN 0
  ELSE AvailableTotal(Tail(items)) + (IF Head(items).available THEN Head(items).price ELSE 0)

\* C13: every stored response has totalPrice the sum of the prices of its
\* available items, discount 5 when totalPrice > 1000 and 0 otherwise, and
\* finalPrice = totalPrice * (1 - discount/100), after every save.
C13_PriceDeterminism ==
  db.exists =>
    \A i \in DOMAIN db.responses :
      LET r == db.responses[i] IN
        /\ r.totalPrice = AvailableTotal(r.availableMedicines)
        /\ r.discount = (IF r.totalPrice > 1000 THEN 5 ELSE 0)
        /\ r.finalPrice * 100 = r.totalPrice * (100 - r.discount)

\* C13 witness: after an acceptance was saved, the request holds a response of
\* 1200 priced 1140 and one of exactly 1000 from a body with an unavailable
\* priced item, priced 1000.
C13_Witness ==
  /\ db.exists
  /\ db.status = "accepted"
  /\ \E i, j \in DOMAIN db.responses :
       /\ db.responses[i].totalPrice = 1200
       /\ db.responses[i].discount = 5
       /\ db.responses[i].finalPrice = 1140
       /\ Len(db.responses[j].availableMedicines) = 2
       /\ db.responses[j].totalPrice = 1000
       /\ db.responses[j].discount = 0
       /\ db.responses[j].finalPrice = 1000

\* the key of the cell of a point: floor(lat / 0.05), floor(lon / 0.05)
CellKey(lat, lng) == <<lat \div 5, lng \div 5>>

CellRoom(lat, lng) ==
  "location_" \o ToString(CellKey(lat, lng)[1]) \o "_" \o ToString(CellKey(lat, lng)[2])

RegisteredLocation(u) == role(u) = "pharmacy" /\ Len(coordinatesOf(u)) = 2

PharmacyChannels == {ch \in ChannelIds : channels[ch].live /\ role(channels[ch].userId) = "pharmacy"}

\* C14: a successful createRequest emits new_medicine_request once, to the
\* room of the cell of the request's origin; a connected pharmacy receives it
\* exactly when it has a registered location in the cell of the origin; and
\* urgent_medicine_request goes to the pharmacies room exactly when the
\* urgency is urgent or emergency.
C14_Routing ==
  [][(~db.exists /\ db'.exists) =>
       LET news == {e \in last'.events : e.name = "new_medicine_request"}
           urgent == {e \in last'.events : e.name = "urgent_medicine_request"}
       IN \E n \in news :
            LET lat == n.data.location.latitude.value
                lng == n.data.location.longitude.value
            IN /\ news = {n}
               /\ n.room = CellRoom(lat, lng)
               /\ \A ch \in PharmacyChannels :
                    [channel |-> ch, name |-> "new_medicine_request"] \in delivered'
                    <=> (/\ RegisteredLocation(channels[ch].userId)
                         /\ CellKey(coordinatesOf(channels[ch].userId)[2],
                                    coordinatesOf(channels[ch].userId)[1]) = CellKey(lat, lng))
               /\ (urgent # {}) <=> (n.data.urgency \in {"urgent", "emergency"})
               /\ \A e \in urgent : e.room = "pharmacies"
               /\ \A ch \in PharmacyChannels :
                    [channel |-> ch, name |-> "urgent_medicine_request"] \in delivered'
                    <=> (urgent # {})]_vars

\* C14 witness: an urgent request was created in the cell of phA while phA and
\* phB were connected: phA received new_medicine_request, phB did not, and
\* phB received urgent_medicine_request.
C14_Witness ==
  /\ last.op = "create"
  /\ last.result = "ok"
  /\ \E ch1, ch2 \in ChannelIds :
       /\ channels[ch1].live /\ channels[ch1].userId = "phA"
       /\ channels[ch2].live /\ channels[ch2].userId = "phB"
       /\ [channel |-> ch1, name |-> "new_medicine_request"] \in delivered
       /\ [channel |-> ch2, name |-> "new_medicine_request"] \notin delivered
       /\ [channel |-> ch2, name |-> "urgent_medicine_request"] \in delivered

\* C15: createRequest fails with ValidationError, creating no request and
\* emitting no event, exactly when the medicines list is empty, some quantity
\* is not positive or the origin is missing; every other call by a patient
\* creates an open request with no responses, no accepted pharmacy and
\* expiresAt 24 hours after the creation.
C15_CreateValidation ==
  [][\A a \in Users, u \in Urgencies, m \in MedicineLists, l \in Locations :
       CreateRequest(a, u, m, l)
       => LET invalid == \/ m = << >>
                         \/ \E i \in DOMAIN m : m[i] <= 0
                         \/ ~l.given
          IN /\ (last'.result = "ValidationError") <=> invalid
             /\ invalid => (db' = db /\ last'.events = {})
             /\ (~invalid /\ role(a) = "patient")
                => (/\ last'.result = "ok"
                    /\ db'.exists
                    /\ db'.status = "open"
                    /\ db'.responses = << >>
                    /\ db'.accepted = NoAccepted
                    /\ db'.expiresAt = now + TTL)]_vars

\* C16: the outcome of createRequest, respondToRequest, acceptPharmacy,
\* updateRequestStatus and addCommunication, and the request they leave in the
\* store, are fixed by the call and the stored request alone, whoever is
\* connected: a call whose save goes through reports success and its
\* mutation stays in the store.
C16_BestEffort ==
  [][/\ \A c \in BagToSet(calls) :
          Completes(c, c.op)
          => IF SaveOk(db, c.snap, PreSave(c.loc, now))
             THEN last'.result = "ok" /\ db' = Save(db, c.snap, PreSave(c.loc, now))
             ELSE last'.result = "ServerError" /\ db' = db
     /\ \A a \in Users, u \in Urgencies, l \in RoutingLocations :
          (CreateRequest(a, u, <<2>>, l) /\ role(a) = "patient")
          => last'.result = "ok" /\ db' = NewRequest(a, u, now)]_vars

\* C16 witness: a message was added and reported as a success while no socket
\* was in the room of its recipient.
C16_Witness ==
  /\ last.op = "addCommunication"
  /\ last.result = "ok"
  /\ last.events # {}
  /\ \A ch \in ChannelIds, e \in last.events : e.room \notin channels[ch].rooms
  /\ delivered = {}
  /\ db.communication # << >>

\* C17: a handler emits nothing before its save: the step in which it starts
\* to await the save emits nothing, a call that fails emits nothing, and the
\* events of a successful call come in the step in which its mutation is
\* written to the store (the request created, the response pushed, the
\* acceptance, the status the save wrote, the message pushed).
C17_NotifyAfterPersist ==
  [][/\ (\E c \in BagToSet(calls') : calls' = calls (+) SetToBag({c})) => last' = last
     /\ (ops' = ops + 1 /\ calls' = calls)
        => IF last'.result = "ok"
           THEN last'.op = "create" /\ ~db.exists
                /\ \E u \in Urgencies : db' = NewRequest(last'.actor, u, now)
           ELSE last'.events = {}
     /\ \A c \in BagToSet(calls) :
          Completes(c, c.op)
          => IF last'.result = "ok"
             THEN /\ db' = Save(db, c.snap, PreSave(c.loc, now))
                  /\ \A e \in last'.events :
                       /\ e.name = "pharmacy_responded"
                          => \E i \in DOMAIN db'.responses : db'.responses[i].pharmacy = c.actor
                       /\ e.name \in {"request_accepted", "request_closed"}
                          => db'.status = "accepted" /\ db'.accepted.pharmacy = c.pharmacyId
                       /\ (e.name = "request_status_changed"
                           /\ PreSave(c.loc, now).status # c.snap.status)
                          => db'.status = PreSave(c.loc, now).status
                       /\ e.name = "new_message"
                          => Len(db'.communication) = Len(db.communication) + 1
             ELSE last'.events = {}]_vars

\* C17 witness: the accepted pharmacy set the request to preparing; the patient
\* was notified and the store holds the new status.
C17_Witness ==
  /\ last.op = "updateStatus"
  /\ last.result = "ok"
  /\ last.actor \in Pharmacies
  /\ Ev(UserRoom(Patient), "request_status_changed") \in last.events
  /\ db.status = "preparing"
  /\ calls = EmptyBag

\* C18: every connected channel is in the personal room of its user; it is in
\* the pharmacies room exactly when the user is a pharmacy; it is in a cell
\* room exactly when the user is a pharmacy with a registered location, and
\* then in the room of the cell of that location and in no other.
C18_RoomMembership ==
  \A ch \in ChannelIds :
    channels[ch].live
    => LET u == channels[ch].userId
           cellRooms == channels[ch].rooms \ {UserRoom(u), "pharmacies"}
       IN /\ UserRoom(u) \in channels[ch].rooms
          /\ ("pharmacies" \in channels[ch].rooms) <=> (role(u) = "pharmacy")
          /\ cellRooms = IF RegisteredLocation(u)
                         THEN {CellRoom(coordinatesOf(u)[2], coordinatesOf(u)[1])}
                         ELSE {}

\* C19: when a channel disconnects, connectedUsers and userRooms hold no
\* entry for it, it is in no room and receives nothing from then on, and the
\* entries that belong to other live channels are as they were.
C19_DisconnectCleanup ==
  [][/\ \A ch \in ChannelIds :
          (channels[ch].live /\ ~channels'[ch].live)
          => /\ channels'[ch].rooms = {}
             /\ \A u \in Users : connectedUsers'[u] # ch
             /\ \A u \in Users :
                  (connectedUsers[u] # NoSocketId /\ connectedUsers[u] # ch)
                  => (/\ connectedUsers'[u] = connectedUsers[u]
                      /\ userRooms'[u] = userRooms[u])
     /\ \A d \in delivered' : channels'[d.channel].live]_vars

\* a handler returns in this step
Returns ==
  \/ ops' = ops + 1 /\ calls' = calls
  \/ \E c \in BagToSet(calls) : calls' = calls (-) SetToBag({c})

\* C20: an event is delivered only in the step that emits it and only to the
\* channels that are in its room at that moment; an event for a user reaches
\* exactly the channels that user has open then (none when offline); a
\* connection made later is delivered nothing.
C20_NoReplay ==
  [][IF Returns
     THEN /\ \A d \in delivered' :
               /\ channels[d.channel].live
               /\ \E e \in last'.events :
                    e.name = d.name /\ e.room \in channels[d.channel].rooms
          /\ \A e \in last'.events, u \in Users :
               e.room = UserRoom(u)
               => \A ch \in ChannelIds :
                    [channel |-> ch, name |-> e.name] \in delivered'
                    <=> (channels[ch].live /\ channels[ch].userId = u)
     ELSE delivered' = {}]_vars

\* C20 witness: pharmacy_responded was emitted while the patient had one
\* channel open and a pharmacy had the other: the patient's channel received
\* it, the other channel did not.
C20_Witness ==
  /\ last.op = "respond"
  /\ last.result = "ok"
  /\ \E ch1, ch2 \in ChannelIds :
       /\ channels[ch1].live /\ channels[ch1].userId = Patient
       /\ channels[ch2].live /\ channels[ch2].userId \in Pharmacies
       /\ delivered = {[channel |-> ch1, name |-> "pharmacy_responded"]}

\* the emit calls that one handler makes one after the other
IssuedBefore ==
  { <<"new_medicine_request", "urgent_medicine_request">>,
    <<"request_accepted", "request_closed">> }

C22_AddCommunication ==
  [][/\ \A a \in Users :
          (/\ Arrives("addCommunication", a)
           /\ ~(/\ db.accepted # NoAccepted
                /\ (isPatient(db, a) \/ isAcceptedPharmacy(db, a))))
          => (/\ Rejected("addCommunication", a)
              /\ last'.result = "Unauthorized"
              /\ db' = db)
     /\ \A c \in BagToSet(calls) :
          (Completes(c, "addCommunication") /\ last'.result = "ok")
          => (/\ db'.communication = Append(db.communication, c.actor)
              /\ last'.events =
                   {Ev(UserRoom(IF c.actor = db.patient THEN db.accepted.pharmacy
                                ELSE db.patient), "new_message")})]_vars

\* C23: every request that the nearby query returns was stored with status
\* open and with expiresAt later than the time of the query.
C23_FindNearbyFilter ==
  \A r \in found.requests : r.status = "open" /\ r.expiresAt > found.at

\* C23 witness: a query found the open request, and the request has since
\* been accepted.
C23_Witness ==
  /\ found.requests # {}
  /\ db.status = "accepted"

\* the same request with another urgency
WithUrgency(doc, u) == [doc EXCEPT !.urgency = u]

Offer(r) == [r EXCEPT !.isActive = TRUE]

\* C25: a respondToRequest call that reports success has put its response in
\* the stored request, and no step of any handler removes or replaces a
\* stored response (a step changes at most isActive flags and appends), so
\* the response is there in every later state, whatever calls interleave.
C25_NoLostOffers ==
  [][/\ \A c \in BagToSet(calls) :
          (Completes(c, "respond") /\ last'.result = "ok")
          => /\ Len(db'.responses) = Len(db.responses) + 1
             /\ db'.responses[Len(db'.responses)] = PreSave(c.loc, now).responses[Len(c.loc.responses)]
             /\ db'.responses[Len(db'.responses)].pharmacy = c.actor
     /\ db.exists
        => /\ Len(db'.responses) >= Len(db.responses)
           /\ \A i \in DOMAIN db.responses : Offer(db'.responses[i]) = Offer(db.responses[i])]_vars

\* C25 witness: a response was saved while an acceptPharmacy call that had
\* loaded the request without it was waiting for its own save: the stored
\* request holds it.
C25_Witness ==
  /\ last.op = "respond"
  /\ last.result = "ok"
  /\ \E i \in DOMAIN db.responses : db.responses[i].pharmacy = last.actor
  /\ \E c \in BagToSet(calls) :
       /\ c.op = "accept"
       /\ Len(c.snap.responses) < Len(db.responses)

\* C26: the distance from A to B is the distance from B to A, and the
\* distance from a point to itself is 0.
C26_DistanceSymmetry ==
  distance.called
  => /\ distance.km = calculateDistance(distance.to[1], distance.to[2],
                                        distance.from[1], distance.from[2])
     /\ distance.from = distance.to => distance.km = 0

\* C26 witness: the distance from Delhi to Mumbai was computed and is between
\* 1100 and 1200 km.
C26_Witness ==
  /\ distance.called
  /\ distance.from = <<2861, 7720>>
  /\ distance.to = <<1907, 7287>>
  /\ distance.km > 1100 * Scale
  /\ distance.km < 1200 * Scale

\* the events that report a mutation of the store, with the handler that
\* performs the mutation
MutationHandler(name) ==
  CASE name = "pharmacy_responded" -> "respond"
    [] name \in {"request_accepted", "request_closed"} -> "accept"
    [] name = "request_status_changed" -> "updateStatus"
    [] OTHER -> "none"

\* C27: request_accepted, request_closed, request_status_changed and
\* pharmacy_responded are delivered only in the step in which the handler of
\* the corresponding mutation wrote it to the store; a socket message alone
\* delivers none of them.
C27_EventsReflectStore ==
  [][\A d \in delivered' :
       MutationHandler(d.name) # "none"
       => \E c \in BagToSet(calls) :
            /\ Completes(c, MutationHandler(d.name))
            /\ last'.result = "ok"
            /\ db' = Save(db, c.snap, PreSave(c.loc, now))]_vars

C29_OnlineStatus ==
  \A u \in Users :
    isUserOnline(u) <=> \E ch \in ChannelIds : channels[ch].live /\ channels[ch].userId = u

\* C30: a request stored open whose expiresAt has passed is not accepted: no
\* save of acceptPharmacy on it succeeds, and the next status written for it
\* is expired.
C30_ExpiredNotAccepted ==
  [][(db.exists /\ db.status = "open" /\ db.expiresAt < now /\ db' # db)
     => /\ db'.status = "expired"
        /\ ~(last'.op = "accept" /\ last'.result = "ok")]_vars

====
